---- MODULE Spec2Model ----
(***************************************************************************)
(* Model of src/app.py: the /predict handler of the Gaugehaus real-estate  *)
(* price prediction API.  One call runs validate -> encode -> assemble ->  *)
(* predict -> explain -> save chart -> describe -> respond inside a single *)
(* try block whose two except clauses form the handler boundary.           *)
(***************************************************************************)
EXTENDS Integers, Naturals, Sequences, FiniteSets, TLC

(* ----------------------------- bounds ---------------------------------- *)
\* largest number of records of a reference dataset
MaxRows == 3
\* number of chart identifiers generated in one run; no call is accepted
\* once that many charts were (or may still be) produced
MaxCharts == 2

(* ------------------- float64 values (numpy / pandas) ------------------- *)
\* A float is finite (a rational n/d in lowest terms), NaN, +inf or -inf.
RECURSIVE GCD(_, _)
GCD(a, b) == IF b = 0 THEN a ELSE GCD(b, a % b)

Abs(x) == IF x < 0 THEN -x ELSE x

Fin(n, d) ==
    LET g == GCD(Abs(n), d)
    IN  IF n = 0 THEN [k |-> "fin", n |-> 0, d |-> 1]
        ELSE [k |-> "fin", n |-> n \div g, d |-> d \div g]

NaN  == [k |-> "nan", n |-> 0, d |-> 1]
PInf == [k |-> "inf", n |-> 1, d |-> 1]
NInf == [k |-> "inf", n |-> -1, d |-> 1]

\* np.isnan
IsNaN(x) == x.k = "nan"
\* np.isfinite
IsFinite(x) == x.k = "fin"

\* IEEE addition
FAdd(a, b) ==
    IF IsNaN(a) \/ IsNaN(b) THEN NaN
    ELSE IF a.k = "inf" /\ b.k = "inf" THEN (IF a.n = b.n THEN a ELSE NaN)
    ELSE IF a.k = "inf" THEN a
    ELSE IF b.k = "inf" THEN b
    ELSE Fin(a.n * b.d + b.n * a.d, a.d * b.d)

\* IEEE division by a positive count
FDivInt(a, c) == IF IsFinite(a) THEN Fin(a.n, a.d * c) ELSE a

\* a <= b on floats that are not NaN
FLeq(a, b) ==
    IF a.k = "inf" THEN (a.n < 0 \/ (b.k = "inf" /\ b.n > 0))
    ELSE IF b.k = "inf" THEN b.n > 0
    ELSE a.n * b.d <= b.n * a.d

RECURSIVE FSum(_)
FSum(s) == IF s = <<>> THEN Fin(0, 1) ELSE FAdd(Head(s), FSum(Tail(s)))

NotNaN(x) == ~IsNaN(x)

\* Series.mean(): skipna=True drops the NaN entries, the mean of nothing is NaN
PandasMean(s) ==
    LET v == SelectSeq(s, NotNaN)
    IN  IF v = <<>> THEN NaN ELSE FDivInt(FSum(v), Len(v))

RECURSIVE Insert(_, _)
Insert(x, s) ==
    IF s = <<>> THEN <<x>>
    ELSE IF FLeq(x, Head(s)) THEN <<x>> \o s
    ELSE <<Head(s)>> \o Insert(x, Tail(s))

RECURSIVE SortFloats(_)
SortFloats(s) == IF s = <<>> THEN <<>> ELSE Insert(Head(s), SortFloats(Tail(s)))

\* Series.median(): skipna=True, middle element or the mean of the two middle ones
PandasMedian(s) ==
    LET v == SortFloats(SelectSeq(s, NotNaN))
        m == Len(v)
    IN  IF m = 0 THEN NaN
        ELSE IF m % 2 = 1 THEN v[(m + 1) \div 2]
        ELSE FDivInt(FAdd(v[m \div 2], v[m \div 2 + 1]), 2)

(* ------------------------ the loaded artifacts ------------------------- *)
\* categorical_inputs keys, in the order the handler iterates them
categorical_inputs == <<"City", "Type", "Furnished", "Delivery_Term">>

\* input_df column order
FeatureColumns ==
    <<"Type", "Bedrooms", "Bathrooms", "Area", "Furnished", "Level",
      "Delivery_Term", "City", "Price_per_sqm">>

\* classes_ of the fitted LabelEncoders (sorted, as LabelEncoder keeps them)
FullEncoders ==
    [City          |-> <<"Cairo", "Giza">>,
     Type          |-> <<"Apartment", "Villa">>,
     Furnished     |-> <<"No", "Yes">>,
     Delivery_Term |-> <<"Ready">>]

Restrict(f, S) == [x \in S |-> f[x]]

\* encoders.joblib: the full table, or a table that lacks one column
EncoderTables ==
    {FullEncoders} \cup
    {Restrict(FullEncoders, DOMAIN FullEncoders \ {c}) : c \in DOMAIN FullEncoders}

SeqToSet(s) == {s[i] : i \in 1..Len(s)}

\* LabelEncoder.transform([value])[0]: the position of value in classes_, from 0
Transform(classes, value) ==
    (CHOOSE i \in 1..Len(classes) : classes[i] = value) - 1

\* cleaned_data.csv rows: an encoded City and a Price_per_sqm
RowList ==
    <<[City |-> 0, Price_per_sqm |-> Fin(1, 1)],
      [City |-> 0, Price_per_sqm |-> Fin(4, 1)],
      [City |-> 0, Price_per_sqm |-> NaN],
      [City |-> 0, Price_per_sqm |-> PInf],
      [City |-> 0, Price_per_sqm |-> NInf],
      [City |-> 1, Price_per_sqm |-> Fin(1, 1)],
      [City |-> 1, Price_per_sqm |-> Fin(4, 1)],
      [City |-> 1, Price_per_sqm |-> NaN],
      [City |-> 1, Price_per_sqm |-> PInf],
      [City |-> 1, Price_per_sqm |-> NInf]>>

\* The handler only filters, averages and takes the median of the rows, so
\* one ordering per multiset of rows is kept: rows in RowList order.
ReferenceDatasets ==
    UNION {{[i \in 1..n |-> RowList[f[i]]] :
              f \in {g \in [1..n -> 1..Len(RowList)] :
                        \A i \in 1..(n - 1) : g[i] <= g[i + 1]}} : n \in 0..MaxRows}

NormalDataset ==
    <<[City |-> 0, Price_per_sqm |-> Fin(1, 1)],
      [City |-> 0, Price_per_sqm |-> Fin(4, 1)]>>

\* df_cleaned[df_cleaned["City"] == city_encoded]
CityData(df, code) == SelectSeq(df, LAMBDA r : r.City = code)

Column(df) == [i \in 1..Len(df) |-> df[i].Price_per_sqm]

(* ----------------------------- requests -------------------------------- *)
\* RealEstateInput
Request(city, ptype, furnished, term, bedrooms, bathrooms, area, level) ==
    [city |-> city, property_type |-> ptype, furnished |-> furnished,
     delivery_term |-> term, bedrooms |-> bedrooms, bathrooms |-> bathrooms,
     area |-> area, level |-> level]

\* numerically valid requests with every combination of known / unknown categories
NumericallyValidRequests ==
    {Request(c, t, f, d, 3, 2, 150, 4) :
        c \in {"Cairo", "Giza", "Atlantis"}, t \in {"Apartment", "Castle"},
        f \in {"Yes", "Maybe"}, d \in {"Ready", "Never"}}

\* requests with one or several numeric fields out of range
NumericallyInvalidRequests ==
    {Request(c[1], c[2], c[3], c[4], n[1], n[2], n[3], n[4]) :
        c \in {<<"Cairo", "Apartment", "Yes", "Ready">>,
               <<"Atlantis", "Castle", "Maybe", "Never">>},
        n \in {<<-1, 2, 150, 4>>, <<3, -1, 150, 4>>, <<3, 2, 0, 4>>,
               <<3, 2, 150, -1>>, <<-1, -1, -2, -1>>}}

Requests == NumericallyValidRequests \cup NumericallyInvalidRequests

\* the value a request submits for a categorical column
Submitted(req, col) ==
    CASE col = "City" -> req.city
      [] col = "Type" -> req.property_type
      [] col = "Furnished" -> req.furnished
      [] col = "Delivery_Term" -> req.delivery_term

(* ------------------------ exceptions, responses ------------------------ *)
Detail(text, col, value, code, options) ==
    [prefix |-> "", inner_status |-> 0, text |-> text, col |-> col,
     value |-> value, code |-> code, options |-> options]

NoExc == [cls |-> "none", status |-> 0, detail |-> Detail("", "", "", -1, <<>>)]

\* raise HTTPException(status_code=status, detail=...)
HTTPException(status, detail) ==
    [cls |-> "HTTPException", status |-> status, detail |-> detail]

\* an exception thrown by a collaborator (model, explainer, matplotlib, PIL)
Raised(cls, msg) ==
    [cls |-> cls, status |-> 0, detail |-> Detail(msg, "", "", -1, <<>>)]

\* exception classes a collaborator throws: ValueError and another Exception
CollaboratorErrors == {"ValueError", "RuntimeError"}

\* f"<prefix>{str(e)}": str of an HTTPException is "<status_code>: <detail>",
\* str of any other exception is its message
Message(prefix, e) ==
    [e.detail EXCEPT !.prefix = prefix, !.inner_status = e.status]

NoResponse == [kind |-> "none"]

ErrorResponse(e) == [kind |-> "error", status |-> e.status, detail |-> e.detail]

\* a boundary without the ValueError clause
HandlerBoundaryNoValueError(e) ==
    HTTPException(500, Message("Prediction failed: ", e))

\* the two except clauses of predict: what leaves the handler for exception e
HandlerBoundary(e) ==
    IF e.cls = "ValueError"
    THEN HTTPException(400, Message("Input error: ", e))
    ELSE HTTPException(500, Message("Prediction failed: ", e))

(* --------------------------- pipeline stages --------------------------- *)
\* lines 51-58: the first numeric field out of range raises a 400
ValidateInput(req) ==
    IF req.bedrooms < 0
    THEN HTTPException(400, Detail("Bedrooms must be non-negative", "", "", -1, <<>>))
    ELSE IF req.bathrooms < 0
    THEN HTTPException(400, Detail("Bathrooms must be non-negative", "", "", -1, <<>>))
    ELSE IF req.area <= 0
    THEN HTTPException(400, Detail("Area must be positive", "", "", -1, <<>>))
    ELSE IF req.level < 0
    THEN HTTPException(400, Detail("Level must be non-negative", "", "", -1, <<>>))
    ELSE NoExc

\* lines 68-77: the loop over categorical_inputs, from column i on
RECURSIVE EncodeFrom(_, _, _, _)
EncodeFrom(encoders, req, i, acc) ==
    IF i > Len(categorical_inputs) THEN [exc |-> NoExc, encoded |-> acc]
    ELSE LET col   == categorical_inputs[i]
             value == Submitted(req, col)
         IN  IF col \notin DOMAIN encoders
             THEN [exc |-> HTTPException(500,
                              Detail("LabelEncoder for {col} not found", col, "", -1, <<>>)),
                   encoded |-> acc]
             ELSE IF value \notin SeqToSet(encoders[col])
             THEN [exc |-> HTTPException(400,
                              Detail("Invalid {col}: '{value}'. Valid options: {options}",
                                     col, value, -1, encoders[col])),
                   encoded |-> acc]
             ELSE EncodeFrom(encoders, req, i + 1,
                             (col :> Transform(encoders[col], value)) @@ acc)

EncodeInputs(encoders, req) == EncodeFrom(encoders, req, 1, <<>>)

\* a mean that keeps the NaN entries (skipna=False)
CityAverageKeepNaN(city_data) ==
    IF city_data = <<>> THEN NaN
    ELSE FDivInt(FSum(Column(city_data)), Len(city_data))

\* line 88: city_data["Price_per_sqm"].mean()
CityAverage(city_data) == PandasMean(Column(city_data))

\* a test that forgets the infinities
UnusableNaNOnly(x) == IsNaN(x)

\* lines 89 and 92: np.isnan(x) or not np.isfinite(x)
Unusable(x) == IsNaN(x) \/ ~IsFinite(x)

\* line 91: df_cleaned["Price_per_sqm"].median()
DefaultPricePerSqm(df) == PandasMedian(Column(df))

\* lines 80-97: the Price_per_sqm of the feature vector, or the exception raised
PricePerSqm(encoders, df, req, city_encoded) ==
    LET city_data == CityData(df, city_encoded)
        avg       == CityAverage(city_data)
        default   == DefaultPricePerSqm(df)
    IN  IF city_data = <<>>
        THEN [exc |-> HTTPException(400,
                 Detail("No data for city code {code} (decoded: {city}). Valid cities: {options}",
                        "City", req.city, city_encoded, encoders["City"])),
              value |-> NaN]
        ELSE IF ~Unusable(avg) THEN [exc |-> NoExc, value |-> avg]
        ELSE IF Unusable(default)
        THEN [exc |-> HTTPException(500,
                 Detail("Cannot compute Price_per_sqm: invalid data in cleaned_data.csv",
                        "", "", -1, <<>>)),
              value |-> avg]
        ELSE [exc |-> NoExc, value |-> default]

\* lines 100-110: the single row of input_df, read back as float64 by iloc[0]
InputDf(req, encoded, price_per_sqm) ==
    <<Fin(encoded["Type"], 1), Fin(req.bedrooms, 1), Fin(req.bathrooms, 1),
      Fin(req.area, 1), Fin(encoded["Furnished"], 1), Fin(req.level, 1),
      Fin(encoded["Delivery_Term"], 1), Fin(encoded["City"], 1), price_per_sqm>>

\* a predictor stage without the sanity check
CheckPredictionSkipped(predicted_price) == NoExc

\* lines 114-115
CheckPrediction(predicted_price) ==
    IF predicted_price < 0
    THEN HTTPException(500,
             Detail("Predicted price is negative, which is invalid", "", "", -1, <<>>))
    ELSE NoExc

\* a chart path that does not carry the identifier
JpegPathFixed(unique_id) == [dir |-> "static/", name |-> "shap_explanation_",
                             id |-> 0, ext |-> ".jpeg"]

\* lines 143 and 145
JpegPath(unique_id) == [dir |-> "static/", name |-> "shap_explanation_",
                        id |-> unique_id, ext |-> ".jpeg"]
ImageUrl(unique_id) == [dir |-> "/static/", name |-> "shap_explanation_",
                        id |-> unique_id, ext |-> ".jpeg"]

\* line 150
Direction(shap_value) == IF shap_value > 0 THEN "increased" ELSE "decreased"

\* f"{abs(shap_value):.2f}": attributions are counted in thousandths of a
\* unit, the text shows hundredths (no modelled value lies on a rounding tie)
Format2(shap_value) == (Abs(shap_value) + 5) \div 10

Min(a, b) == IF a < b THEN a ELSE b

\* lines 148-151: the header and one line per zipped (column, attribution, value)
Description(columns, shap_values, row) ==
    [header |-> "Factors influencing the predicted price:",
     lines  |-> [i \in 1..Min(Len(columns), Min(Len(shap_values), Len(row))) |->
                   [feature   |-> columns[i],
                    value     |-> row[i],
                    direction |-> Direction(shap_values[i]),
                    magnitude |-> Format2(shap_values[i])]]]

\* lines 154-158
Success(predicted_price, image_url, description) ==
    [kind |-> "ok", status |-> 200, predicted_price |-> predicted_price,
     image_url |-> image_url, factors_description |-> description]

(* ------------------ the opaque model and explainer --------------------- *)
\* model.predict(input_df)[0]: prices a regression model may return
Prices == {-5, 0, 7}

\* explainer.shap_values(input_df)[0], in thousandths of a price unit
ShapVectors ==
    {[i \in 1..Len(FeatureColumns) |-> IF i = 4 THEN a ELSE b] :
        a \in {-1234, 4}, b \in {0, 2501}}
    \cup {[i \in 1..Len(FeatureColumns) |-> -4]}

(* ------------------------------- state --------------------------------- *)
VARIABLES
    label_encoders,   \* encoders.joblib, loaded at start-up
    df_cleaned,       \* cleaned_data.csv, loaded at start-up
    workers,          \* the server workers that run the handler
    calls,            \* per worker: the call it is running, stage by stage
    static_dir,       \* the chart files written to static/, in write order
    uuids             \* how many identifiers uuid.uuid4() has handed out

vars == <<label_encoders, df_cleaned, workers, calls, static_dir, uuids>>

Workers == {1, 2}

NoRequest == Request("", "", "", "", 0, 0, 0, 0)

IdleCall ==
    [pc |-> "idle", req |-> NoRequest, encoded_inputs |-> <<>>,
     input_df |-> <<>>, predicted_price |-> 0, shap_values |-> <<>>,
     unique_id |-> 0, description |-> [header |-> "", lines |-> <<>>],
     exc |-> NoExc, response |-> NoResponse, trace |-> <<>>,
     model_calls |-> 0, explainer_calls |-> 0, written |-> <<>>]

\* the deployments checked: every encoder table over the usual dataset, every
\* reference dataset under the full encoder table, and two workers side by side
Deployments ==
    {[encoders |-> e, data |-> NormalDataset, workers |-> {1}] : e \in EncoderTables}
    \cup {[encoders |-> FullEncoders, data |-> d, workers |-> {1}] :
             d \in ReferenceDatasets}
    \cup {[encoders |-> FullEncoders, data |-> NormalDataset, workers |-> Workers]}

Init ==
    /\ \E d \in Deployments :
          /\ label_encoders = d.encoders
          /\ df_cleaned = d.data
          /\ workers = d.workers
    /\ calls = [w \in Workers |-> IdleCall]
    /\ static_dir = <<>>
    /\ uuids = 0

InFlight == {w \in Workers : calls[w].pc # "idle"}

\* a stage whose failure does not stop the call
AdvanceRegardless(exc, next) == next

\* where a stage hands over: to the except clauses when it raised, else onward
Advance(exc, next) == IF exc.cls # "none" THEN "except" ELSE next

\* line 142: uuid.uuid4(), an identifier no earlier call was given
Uuid4 == uuids + 1

(* ------------------------------ actions -------------------------------- *)
\* lines 47-48: a request arrives and the handler starts
Receive(w) ==
    /\ w \in workers
    /\ calls[w].pc = "idle"
    /\ uuids + Cardinality(InFlight) < MaxCharts
    /\ \E r \in Requests :
          calls' = [calls EXCEPT ![w] = [IdleCall EXCEPT !.pc = "validate", !.req = r]]
    /\ UNCHANGED <<label_encoders, df_cleaned, workers, static_dir, uuids>>

\* lines 50-58
Validate(w) ==
    /\ calls[w].pc = "validate"
    /\ LET e == ValidateInput(calls[w].req)
       IN  calls' = [calls EXCEPT ![w].exc = e,
                                  ![w].trace = Append(@, "validate"),
                                  ![w].pc = Advance(e, "encode")]
    /\ UNCHANGED <<label_encoders, df_cleaned, workers, static_dir, uuids>>

\* lines 60-77
Encode(w) ==
    /\ calls[w].pc = "encode"
    /\ LET r == EncodeInputs(label_encoders, calls[w].req)
       IN  calls' = [calls EXCEPT ![w].exc = r.exc,
                                  ![w].encoded_inputs = r.encoded,
                                  ![w].trace = Append(@, "encode"),
                                  ![w].pc = Advance(r.exc, "assemble")]
    /\ UNCHANGED <<label_encoders, df_cleaned, workers, static_dir, uuids>>

\* lines 79-110
Assemble(w) ==
    /\ calls[w].pc = "assemble"
    /\ LET c == calls[w]
           r == PricePerSqm(label_encoders, df_cleaned, c.req, c.encoded_inputs["City"])
       IN  calls' = [calls EXCEPT
                ![w].exc = r.exc,
                ![w].input_df = IF r.exc.cls = "none"
                                THEN InputDf(c.req, c.encoded_inputs, r.value) ELSE <<>>,
                ![w].trace = Append(@, "assemble"),
                ![w].pc = Advance(r.exc, "predict")]
    /\ UNCHANGED <<label_encoders, df_cleaned, workers, static_dir, uuids>>

\* lines 112-115: the model returns a price, or throws
Predict(w) ==
    /\ calls[w].pc = "predict"
    /\ \/ \E p \in Prices :
            LET e == CheckPrediction(p)
            IN  calls' = [calls EXCEPT ![w].predicted_price = p,
                                       ![w].model_calls = @ + 1,
                                       ![w].exc = e,
                                       ![w].trace = Append(@, "predict"),
                                       ![w].pc = Advance(e, "explain")]
       \/ \E cls \in CollaboratorErrors :
            calls' = [calls EXCEPT ![w].model_calls = @ + 1,
                                   ![w].exc = Raised(cls, "model.predict failed"),
                                   ![w].trace = Append(@, "predict"),
                                   ![w].pc = "except"]
    /\ UNCHANGED <<label_encoders, df_cleaned, workers, static_dir, uuids>>

\* lines 117-130: the explainer returns the attributions, or throws
Explain(w) ==
    /\ calls[w].pc = "explain"
    /\ \/ \E v \in ShapVectors :
            calls' = [calls EXCEPT ![w].shap_values = v,
                                   ![w].explainer_calls = @ + 1,
                                   ![w].trace = Append(@, "explain"),
                                   ![w].pc = "save"]
       \/ \E cls \in CollaboratorErrors :
            calls' = [calls EXCEPT ![w].explainer_calls = @ + 1,
                                   ![w].exc = Raised(cls, "explainer failed"),
                                   ![w].trace = Append(@, "explain"),
                                   ![w].pc = "except"]
    /\ UNCHANGED <<label_encoders, df_cleaned, workers, static_dir, uuids>>

\* lines 132-145: the chart is rendered and saved under a new identifier;
\* rendering may throw before any file exists, img.save after it created one
SaveChart(w) ==
    /\ calls[w].pc = "save"
    /\ \/ /\ calls' = [calls EXCEPT ![w].unique_id = Uuid4,
                                    ![w].written = Append(@, JpegPath(Uuid4)),
                                    ![w].pc = "describe"]
          /\ static_dir' = Append(static_dir, JpegPath(Uuid4))
          /\ uuids' = uuids + 1
       \/ /\ \E cls \in CollaboratorErrors :
                calls' = [calls EXCEPT ![w].exc = Raised(cls, "savefig failed"),
                                       ![w].pc = "except"]
          /\ UNCHANGED <<static_dir, uuids>>
       \/ /\ \E cls \in CollaboratorErrors :
                calls' = [calls EXCEPT ![w].unique_id = Uuid4,
                                       ![w].written = Append(@, JpegPath(Uuid4)),
                                       ![w].exc = Raised(cls, "img.save failed"),
                                       ![w].pc = "except"]
          /\ static_dir' = Append(static_dir, JpegPath(Uuid4))
          /\ uuids' = uuids + 1
    /\ UNCHANGED <<label_encoders, df_cleaned, workers>>

\* lines 147-151
Describe(w) ==
    /\ calls[w].pc = "describe"
    /\ calls' = [calls EXCEPT
            ![w].description =
                Description(FeatureColumns, calls[w].shap_values, calls[w].input_df),
            ![w].pc = "respond"]
    /\ UNCHANGED <<label_encoders, df_cleaned, workers, static_dir, uuids>>

\* lines 153-158
Respond(w) ==
    /\ calls[w].pc = "respond"
    /\ calls' = [calls EXCEPT
            ![w].response = Success(calls[w].predicted_price,
                                    ImageUrl(calls[w].unique_id),
                                    calls[w].description),
            ![w].trace = Append(@, "respond"),
            ![w].pc = "responded"]
    /\ UNCHANGED <<label_encoders, df_cleaned, workers, static_dir, uuids>>

\* lines 159-162: the except clauses turn the exception into the reply
Boundary(w) ==
    /\ calls[w].pc = "except"
    /\ calls' = [calls EXCEPT
            ![w].response = ErrorResponse(HandlerBoundary(calls[w].exc)),
            ![w].pc = "responded"]
    /\ UNCHANGED <<label_encoders, df_cleaned, workers, static_dir, uuids>>

\* the reply is delivered; the call and its request are discarded
Return(w) ==
    /\ calls[w].pc = "responded"
    /\ calls' = [calls EXCEPT ![w] = IdleCall]
    /\ UNCHANGED <<label_encoders, df_cleaned, workers, static_dir, uuids>>

Next ==
    \E w \in Workers :
        \/ Receive(w)
        \/ Validate(w)
        \/ Encode(w)
        \/ Assemble(w)
        \/ Predict(w)
        \/ Explain(w)
        \/ SaveChart(w)
        \/ Describe(w)
        \/ Respond(w)
        \/ Boundary(w)
        \/ Return(w)

Spec == Init /\ [][Next]_vars

(* ------------------------------ claims --------------------------------- *)
Stages == <<"validate", "encode", "assemble", "predict", "explain", "respond">>

Responded(c) == c.pc = "responded"

NumericallyInvalid(req) ==
    req.bedrooms < 0 \/ req.bathrooms < 0 \/ req.area <= 0 \/ req.level < 0

\* the categorical columns whose submitted value the encoder table does not know
UnknownColumns(req) ==
    {col \in DOMAIN label_encoders :
        Submitted(req, col) \notin SeqToSet(label_encoders[col])}

AllEncodersPresent == DOMAIN label_encoders = SeqToSet(categorical_inputs)

\* C1: a request with bedrooms<0, bathrooms<0, area<=0 or level<0 is answered
\* with a client error (status 400), and neither the model nor the explainer
\* is invoked during that call.
C1_NumericRejectedAs400 ==
    \A w \in Workers :
        LET c == calls[w]
        IN  (Responded(c) /\ NumericallyInvalid(c.req)) =>
                /\ c.response.kind = "error"
                /\ c.response.status = 400
                /\ c.model_calls = 0
                /\ c.explainer_calls = 0

\* C2: with every encoder present, a numerically valid request that submits an
\* unknown category is answered with a client error (status 400) whose message
\* lists exactly the valid categories of the offending field, and the model is
\* not invoked.
C2_UnknownCategoryAs400 ==
    \A w \in Workers :
        LET c == calls[w]
        IN  (/\ Responded(c)
             /\ AllEncodersPresent
             /\ ~NumericallyInvalid(c.req)
             /\ UnknownColumns(c.req) # {}) =>
                /\ c.response.kind = "error"
                /\ c.response.status = 400
                /\ c.response.detail.col \in UnknownColumns(c.req)
                /\ c.response.detail.options = label_encoders[c.response.detail.col]
                /\ c.model_calls = 0

\* the request's city code has no record in the reference dataset
NoCityRecords(c) ==
    /\ AllEncodersPresent
    /\ ~NumericallyInvalid(c.req)
    /\ UnknownColumns(c.req) = {}
    /\ \A i \in 1..Len(df_cleaned) :
          df_cleaned[i].City # Transform(label_encoders["City"], c.req.city)

\* C3: when all categories are valid but no reference record carries the
\* request's city code, the reply is a client error (status 400) listing the
\* valid city names of the encoder table, and the model is not invoked.
C3_NoCityDataAs400 ==
    \A w \in Workers :
        LET c == calls[w]
        IN  (Responded(c) /\ NoCityRecords(c)) =>
                /\ c.response.kind = "error"
                /\ c.response.status = 400
                /\ c.response.detail.options = label_encoders["City"]
                /\ c.model_calls = 0

\* C4: no successful reply carries a negative predicted_price; once the model
\* returned a negative price the call runs no explainer, writes no chart and
\* ends as a server error (status 500), the price being left as it was.
C4_NegativePriceIsServerError ==
    \A w \in Workers :
        LET c == calls[w]
        IN  /\ c.response.kind = "ok" => c.response.predicted_price >= 0
            /\ (c.model_calls > 0 /\ c.predicted_price < 0) =>
                   /\ c.pc \in {"except", "responded"}
                   /\ c.explainer_calls = 0
                   /\ c.written = <<>>
                   /\ Responded(c) =>
                         /\ c.response.kind = "error"
                         /\ c.response.status = 500

C4_Witness ==
    \E w \in Workers :
        /\ Responded(calls[w])
        /\ calls[w].model_calls = 1
        /\ calls[w].predicted_price < 0
        /\ calls[w].response.status = 500

\* a collaborator (model, explainer, chart rendering) threw during the call
CollaboratorThrew(c) == c.exc.cls \in CollaboratorErrors

\* C5 as stated: every exception thrown by a collaborator is reported as a
\* server error (status 500) whose message carries the exception's message.
C5_EveryExceptionAs500 ==
    \A w \in Workers :
        LET c == calls[w]
        IN  (Responded(c) /\ CollaboratorThrew(c)) =>
                /\ c.response.kind = "error"
                /\ c.response.status = 500
                /\ c.response.detail.text = c.exc.detail.text

\* C5 amended: a collaborator's exception other than a ValueError is reported
\* as status 500 "Prediction failed: <message>"; a ValueError is reported as
\* status 400 "Input error: <message>".
C5_ExceptionsByClass ==
    \A w \in Workers :
        LET c == calls[w]
        IN  (Responded(c) /\ CollaboratorThrew(c)) =>
                /\ c.response.kind = "error"
                /\ c.response.detail.text = c.exc.detail.text
                /\ c.exc.cls # "ValueError" =>
                      /\ c.response.status = 500
                      /\ c.response.detail.prefix = "Prediction failed: "
                /\ c.exc.cls = "ValueError" =>
                      /\ c.response.status = 400
                      /\ c.response.detail.prefix = "Input error: "

C5_Witness ==
    \E w \in Workers :
        /\ Responded(calls[w])
        /\ calls[w].exc.cls = "ValueError"
        /\ calls[w].explainer_calls = 1
        /\ calls[w].response.status = 400

\* the call built its feature vector
Assembled(c) == c.input_df # <<>>

\* the Price_per_sqm values of the reference records of the call's city
CityPrices(c) == Column(CityData(df_cleaned, c.encoded_inputs["City"]))

HasFinite(s) == \E i \in 1..Len(s) : s[i].k = "fin"
HasInfinite(s) == \E i \in 1..Len(s) : s[i].k = "inf"

RECURSIVE Numerators(_)
Numerators(s) == IF s = <<>> THEN 0 ELSE Head(s).n * Head(s).d + Numerators(Tail(s))

\* x is the arithmetic mean of the finite whole-number values s
IsMeanOf(x, s) == x.k = "fin" /\ x.n * Len(s) = x.d * Numerators(s)

\* C6 as stated: when the city has at least one record with a finite
\* Price_per_sqm, the Price_per_sqm placed in the feature vector is the mean
\* of that city's records (missing values skipped), whatever its other
\* records contain, and not the global median.
C6_MeanWheneverOneFinite ==
    \A w \in Workers :
        LET c == calls[w]
        IN  (Assembled(c) /\ HasFinite(CityPrices(c))) =>
                c.input_df[9] = FDivInt(FSum(SelectSeq(CityPrices(c), NotNaN)),
                                        Len(SelectSeq(CityPrices(c), NotNaN)))

\* C6 amended: when the city has at least one finite record and no infinite
\* one, the call builds its feature vector and the Price_per_sqm in it is the
\* arithmetic mean of the city's records that are not NaN; when the city has
\* an infinite record the value placed is the global median instead.
C6_MeanOfFiniteRecords ==
    \A w \in Workers :
        LET c == calls[w]
        IN  ("assemble" \in SeqToSet(c.trace) /\ HasFinite(CityPrices(c))) =>
                /\ ~HasInfinite(CityPrices(c)) =>
                      /\ Assembled(c)
                      /\ IsMeanOf(c.input_df[9], SelectSeq(CityPrices(c), IsFinite))
                /\ (HasInfinite(CityPrices(c)) /\ Assembled(c)) =>
                      c.input_df[9] = PandasMedian(Column(df_cleaned))

\* the city has the records 1, 4 and NaN, and the model is fed their mean 5/2
C6_Witness ==
    \E w \in Workers :
        /\ calls[w].model_calls = 1
        /\ Len(CityPrices(calls[w])) = 3
        /\ HasFinite(CityPrices(calls[w]))
        /\ \E i \in 1..3 : IsNaN(CityPrices(calls[w])[i])
        /\ calls[w].input_df[9] = Fin(5, 2)

\* the city has records, and their mean is NaN or infinite
MeanUnusable(c) ==
    /\ CityPrices(c) # <<>>
    /\ ~IsFinite(PandasMean(CityPrices(c)))

MedianUnusable == ~IsFinite(PandasMedian(Column(df_cleaned)))

\* C7: when the city's records exist but their mean is NaN or infinite, the
\* feature vector carries the global median of Price_per_sqm; when that median
\* is NaN or infinite too, the call fails with status 500 before the model is
\* invoked.  The Price_per_sqm handed to the model is therefore always finite.
C7_FallbackChain ==
    \A w \in Workers :
        LET c == calls[w]
        IN  /\ c.model_calls > 0 => IsFinite(c.input_df[9])
            /\ ("assemble" \in SeqToSet(c.trace) /\ MeanUnusable(c)) =>
                  /\ ~MedianUnusable =>
                        /\ Assembled(c)
                        /\ c.input_df[9] = PandasMedian(Column(df_cleaned))
                  /\ MedianUnusable =>
                        /\ ~Assembled(c)
                        /\ c.model_calls = 0
                        /\ c.pc \in {"except", "responded"}
                        /\ Responded(c) =>
                              c.response.kind = "error" /\ c.response.status = 500

\* an infinite city mean was replaced by the finite global median, and the
\* model ran on it
C7_Witness ==
    \E w \in Workers :
        /\ calls[w].model_calls = 1
        /\ MeanUnusable(calls[w])
        /\ HasInfinite(CityPrices(calls[w]))
        /\ calls[w].input_df[9] = PandasMedian(Column(df_cleaned))

\* the trace is the first stages of the pipeline, in order, each run once
ForwardOnly(c) == c.trace = SubSeq(Stages, 1, Len(c.trace))

\* how many stages a call has completed when it stands at pc
Completed(pc) ==
    CASE pc = "idle" -> {0}
      [] pc = "validate" -> {0}
      [] pc = "encode" -> {1}
      [] pc = "assemble" -> {2}
      [] pc = "predict" -> {3}
      [] pc = "explain" -> {4}
      [] pc \in {"save", "describe", "respond"} -> {5}
      [] pc \in {"except", "responded"} -> 1..6

\* a success reply is complete: all three fields are set by the stages before
CompleteSuccess(c) ==
    /\ c.response.kind = "ok"
    /\ c.exc.cls = "none"
    /\ c.trace = Stages
    /\ c.model_calls = 1 /\ c.explainer_calls = 1
    /\ c.response.predicted_price = c.predicted_price
    /\ c.response.image_url.id = c.unique_id /\ c.unique_id > 0
    /\ c.response.factors_description = c.description
    /\ Len(c.description.lines) > 0
    /\ Len(c.written) = 1

ErrorReply(c) ==
    /\ c.response.kind = "error"
    /\ c.exc.cls # "none"
    /\ c.response.status \in {400, 500}
    /\ Len(c.trace) < Len(Stages)

StageInvariant(c) ==
    /\ ForwardOnly(c)
    /\ Len(c.trace) \in Completed(c.pc)
    /\ c.model_calls = (IF Len(c.trace) >= 4 THEN 1 ELSE 0)
    /\ c.explainer_calls = (IF Len(c.trace) >= 5 THEN 1 ELSE 0)
    /\ c.exc.cls # "none" => c.pc \in {"except", "responded"}
    /\ c.written # <<>> => (Len(c.trace) >= 5 /\ Len(c.written) = 1)
    /\ Responded(c) => (CompleteSuccess(c) \/ ErrorReply(c))
    /\ ~Responded(c) => c.response = NoResponse

\* once a stage has failed, the call runs no further stage and writes nothing:
\* it can only be answered, unchanged, and then be discarded
AbortsOnFailure(w) ==
    calls[w].exc.cls # "none" =>
        \/ calls'[w] = calls[w]
        \/ /\ calls[w].pc = "except" /\ calls'[w].pc = "responded"
           /\ calls'[w].trace = calls[w].trace
           /\ calls'[w].written = calls[w].written
           /\ calls'[w].model_calls = calls[w].model_calls
           /\ calls'[w].explainer_calls = calls[w].explainer_calls
        \/ calls[w].pc = "responded" /\ calls'[w] = IdleCall

\* C8: a call runs validate, encode, assemble, predict, explain, respond in
\* this order, each at most once; a failed stage aborts the later ones, so a
\* call that failed before the explain stage has written no chart; and a call
\* ends either with a complete success reply or with an error reply.
C8_ForwardPipeline ==
    /\ [](\A w \in Workers : StageInvariant(calls[w]))
    /\ [][\A w \in Workers : AbortsOnFailure(w)]_vars

\* a call failed in the predict stage: answered with an error, no chart written
C8_Witness ==
    \E w \in Workers :
        /\ Responded(calls[w])
        /\ calls[w].trace = SubSeq(Stages, 1, 4)
        /\ calls[w].response.kind = "error"
        /\ calls[w].written = <<>>

NoDuplicates(s) == \A i, j \in 1..Len(s) : s[i] = s[j] => i = j

\* C9: however the calls of the workers interleave, a successful call has
\* written exactly one chart file, no path is written twice (neither by two
\* calls nor twice by one), and the image_url of a reply is
\* /static/shap_explanation_<id>.jpeg for the <id> of the file
\* static/shap_explanation_<id>.jpeg that this very call wrote.
C9_OneFreshChartPerCall ==
    /\ NoDuplicates(static_dir)
    /\ \A w \in Workers :
          LET c == calls[w]
          IN  /\ Len(c.written) <= 1
              /\ \A i \in 1..Len(c.written) :
                    /\ \E k \in 1..Len(static_dir) : static_dir[k] = c.written[i]
                    /\ \A v \in Workers \ {w} :
                          \A j \in 1..Len(calls[v].written) :
                              calls[v].written[j] # c.written[i]
              /\ c.response.kind = "ok" =>
                    /\ Len(c.written) = 1
                    /\ c.written[1] = [dir |-> "static/", name |-> "shap_explanation_",
                                       id |-> c.written[1].id, ext |-> ".jpeg"]
                    /\ c.response.image_url =
                          [dir |-> "/static/", name |-> "shap_explanation_",
                           id |-> c.written[1].id, ext |-> ".jpeg"]

\* two calls that ran side by side have both succeeded
C9_Witness ==
    /\ Len(static_dir) = 2
    /\ \A w \in Workers : calls[w].response.kind = "ok"

\* C10: the factors_description of a success reply has the header and one
\* line per feature column, in column order, each with the feature's value,
\* |attribution| to two decimals and the direction word: "increased" for a
\* positive attribution, "decreased" for a negative one, and neither of the
\* two for an attribution of exactly zero.
C10_DirectionMatchesSign ==
    \A w \in Workers :
        LET c == calls[w]
            d == c.response.factors_description
        IN  c.response.kind = "ok" =>
                /\ d.header = "Factors influencing the predicted price:"
                /\ Len(d.lines) = 9
                /\ \A i \in 1..Len(d.lines) :
                      /\ d.lines[i].feature =
                            <<"Type", "Bedrooms", "Bathrooms", "Area", "Furnished",
                              "Level", "Delivery_Term", "City", "Price_per_sqm">>[i]
                      /\ d.lines[i].value = c.input_df[i]
                      /\ 10 * d.lines[i].magnitude - 5 <= Abs(c.shap_values[i])
                      /\ Abs(c.shap_values[i]) < 10 * d.lines[i].magnitude + 5
                      /\ c.shap_values[i] > 0 => d.lines[i].direction = "increased"
                      /\ c.shap_values[i] < 0 => d.lines[i].direction = "decreased"
                      /\ c.shap_values[i] = 0 =>
                            d.lines[i].direction \notin {"increased", "decreased"}

====
